---- MODULE Spec2Model ----
(***************************************************************************)
(* A model of the plugin-side bridge of the R1 SDK:                        *)
(*   - R1Messaging       (src/src/llm/index.ts): the inbound slot          *)
(*     window.onPluginMessage, the response registry and the outbound      *)
(*     call PluginMessageHandler.postMessage;                              *)
(*   - HardwareEvents    (src/src/storage/index.ts): the normalizer of     *)
(*     the five ambient hardware signals;                                  *)
(*   - DeviceControls    (src/src/hardware/device-controls.ts): the gate   *)
(*     with its two flags, its own registry and the keyboard fallback.     *)
(* JavaScript is single threaded and every handler runs to completion, so  *)
(* every action is one whole call: a host call-in, a raised signal with    *)
(* all its listeners, or one API call of application code.                 *)
(* The model is of the browser environment: `window` exists.               *)
(***************************************************************************)
EXTENDS Integers, Sequences, FiniteSets, TLC

(***************************************************************************)
(* Bounds of the model.                                                    *)
(***************************************************************************)
MaxData == 3        \* longest data string of an inbound payload
MaxMsgRegs == 3     \* registrations made by application code on R1Messaging
MaxInst == 2        \* R1Messaging instances constructed
MaxHwRegs == 2      \* registrations made by application code on the hardware registries
MaxInit == 2        \* window listeners of one kind installed by DeviceControls.init

(***************************************************************************)
(* JavaScript values that end up in parsedData.  One record shape with a   *)
(* type tag, so that any two values can be compared.                       *)
(***************************************************************************)
Undefined == [t |-> "undefined", s |-> <<>>, n |-> 0, e |-> <<>>]
JStr(str) == [t |-> "string", s |-> str, n |-> 0, e |-> <<>>]
JNum(num) == [t |-> "number", s |-> <<>>, n |-> num, e |-> <<>>]
JArr(elems) == [t |-> "array", s |-> <<>>, n |-> 0, e |-> elems]

(***************************************************************************)
(* Strings are sequences of characters.  The alphabet is small but has a   *)
(* digit, the array brackets, the double quote and a blank, so that there  *)
(* are valid JSON texts whose value differs from the text (" 1", "[ ]",    *)
(* "\"1\"") and texts that are not JSON ("", "[", "1 1", "]").           *)
(***************************************************************************)
Chars == {"1", "[", "]", "\"", " "}
StringsUpTo(n) == UNION {[1..k -> Chars] : k \in 0..n}

(***************************************************************************)
(* JSON.parse, as a recursive descent parser over the alphabet.  A result  *)
(* is [ok, val, rest]; ok = FALSE is the SyntaxError JSON.parse throws.    *)
(***************************************************************************)
ParseFail == [ok |-> FALSE, val |-> Undefined, rest |-> <<>>]

RECURSIVE SkipWs(_)
SkipWs(str) ==
  IF str # <<>> /\ Head(str) = " " THEN SkipWs(Tail(str)) ELSE str

RECURSIVE ParseDigits(_, _)
ParseDigits(str, acc) ==
  IF str # <<>> /\ Head(str) = "1"
  THEN ParseDigits(Tail(str), 10 * acc + 1)
  ELSE [ok |-> TRUE, val |-> JNum(acc), rest |-> str]

RECURSIVE ParseChars(_, _)
ParseChars(str, acc) ==
  IF str = <<>> THEN ParseFail
  ELSE IF Head(str) = "\"" THEN [ok |-> TRUE, val |-> JStr(acc), rest |-> Tail(str)]
  ELSE ParseChars(Tail(str), Append(acc, Head(str)))

RECURSIVE ParseValue(_)
ParseValue(str) ==
  IF str = <<>> THEN ParseFail
  ELSE CASE Head(str) = "1" -> ParseDigits(str, 0)
         [] Head(str) = "\"" -> ParseChars(Tail(str), <<>>)
         [] Head(str) = "[" ->
              LET inner == SkipWs(Tail(str)) IN
              IF inner # <<>> /\ Head(inner) = "]"
              THEN [ok |-> TRUE, val |-> JArr(<<>>), rest |-> Tail(inner)]
              ELSE LET el == ParseValue(inner)
                       after == SkipWs(el.rest) IN
                   IF el.ok /\ after # <<>> /\ Head(after) = "]"
                   THEN [ok |-> TRUE, val |-> JArr(<<el.val>>), rest |-> Tail(after)]
                   ELSE ParseFail
         [] OTHER -> ParseFail

JSONParse(str) ==
  LET r == ParseValue(SkipWs(str)) IN
  IF r.ok /\ SkipWs(r.rest) = <<>> THEN [ok |-> TRUE, val |-> r.val, rest |-> <<>>]
  ELSE ParseFail

(***************************************************************************)
(* A JavaScript Set keeps insertion order; it is a sequence without        *)
(* duplicates.  add appends an absent element, delete removes it.          *)
(***************************************************************************)
IndexOf(reg, c) ==
  IF \E k \in 1..Len(reg) : reg[k] = c
  THEN CHOOSE k \in 1..Len(reg) : reg[k] = c
  ELSE 0

SetAdd(reg, c) == IF IndexOf(reg, c) # 0 THEN reg ELSE Append(reg, c)

SetDelete(reg, c) == SelectSeq(reg, LAMBDA x : x # c)

Elems(reg) == {reg[k] : k \in 1..Len(reg)}

\* a clear that leaves the oldest element in the set
ClearButOldest(reg) == IF reg = <<>> THEN reg ELSE <<Head(reg)>>

\* Set.prototype.clear
Clear(reg) == <<>>

(***************************************************************************)
(* The callbacks application code registers.  A callback is a function     *)
(* value; what it does when called is fixed by its body:                   *)
(*   "a"   returns normally;                                               *)
(*   "t"   throws;                                                         *)
(*   "rm"  unsubscribes "a" from the registry that is calling it;          *)
(*   "ad"  subscribes "a" to the registry that is calling it;              *)
(*   "rr"  unsubscribes "a" and subscribes it again;                       *)
(*   "rs"  unsubscribes itself and subscribes itself again.                *)
(***************************************************************************)
Consumers == {"a", "t", "rm", "ad"}

\* the callbacks that subscribe again what they have unsubscribed
ReentrantConsumers == {"a", "rr", "rs"}

Throws(c) == c = "t"

CallbackOps(c) ==
  CASE c = "rm" -> << <<"off", "a">> >>
    [] c = "ad" -> << <<"on", "a">> >>
    [] c = "rr" -> << <<"off", "a">>, <<"on", "a">> >>
    [] c = "rs" -> << <<"off", "rs">>, <<"on", "rs">> >>
    [] OTHER -> <<>>

(***************************************************************************)
(* The registry operations a callback makes while Set.prototype.forEach is *)
(* at position p: forEach walks the live set, so a deletion at or before p *)
(* moves the position back and an addition is appended after it.  An       *)
(* element that is deleted and added again is at the end of the set and is *)
(* visited again; a callback that does this to itself is visited without   *)
(* end and forEach never returns.                                          *)
(***************************************************************************)
RECURSIVE ApplyOps(_, _, _)
ApplyOps(reg, p, ops) ==
  IF ops = <<>> THEN [reg |-> reg, p |-> p]
  ELSE LET o == Head(ops)
           j == IndexOf(reg, o[2]) IN
       IF o[1] = "on"
       THEN ApplyOps(SetAdd(reg, o[2]), p, Tail(ops))
       ELSE ApplyOps(SetDelete(reg, o[2]),
                     IF j # 0 /\ j <= p THEN p - 1 ELSE p,
                     Tail(ops))

VARIABLES
  messageHandlers,  \* R1Messaging.messageHandlers of each instance
  isInitialized,    \* R1Messaging.isInitialized of each instance
  nInst,            \* number of R1Messaging instances constructed
  slot,             \* the instance whose closure is window.onPluginMessage, 0 if unset
  hostPresent,      \* whether the global PluginMessageHandler is defined
  obs,              \* what the last messaging call did, as seen from outside
  listeners,        \* HardwareEvents.listeners: tag -> Set of callbacks
  sideButtonEnabled,   \* DeviceControls.sideButtonEnabled
  scrollWheelEnabled,  \* DeviceControls.scrollWheelEnabled
  eventListeners,   \* DeviceControls.eventListeners: channel -> Set of handlers
  winSide,          \* 'sideClick' listeners DeviceControls has added to window
  winScroll,        \* 'scrollUp' (and as many 'scrollDown') listeners it has added
  winKey,           \* 'keydown' listeners it has added
  initCalled,       \* history: deviceControls.init has been called
  seen,             \* what the last hardware stimulus did, as seen from outside
  creationStorage,  \* window.creationStorage.plain: key -> stored string, if any
  got,              \* what the last StorageWrapper call was given and returned
  isListening,      \* AccelerometerAPI.isListening
  currentCallback,  \* AccelerometerAPI.currentCallback, "undefined" if unset
  sensorPresent,    \* whether window.creationSensors.accelerometer is defined
  sensor,           \* the host sensor: the callback and frequency it was started with
  acc,              \* what the last accelerometer call did; between: a start has
                    \* been made and no stop has returned since
  constructed,      \* whether the R1Plugin has been constructed
  config,           \* R1Plugin.config
  mounted,          \* R1Plugin.mounted
  lastHook,         \* history: the lifecycle hook the plugin reached last
  pl                \* what the last R1Plugin call did, as seen from outside

msgVars == <<messageHandlers, isInitialized, nInst, slot, hostPresent, obs>>
hwVars == <<listeners, sideButtonEnabled, scrollWheelEnabled, eventListeners,
            winSide, winScroll, winKey, initCalled, seen>>
stVars == <<creationStorage, got>>
accVars == <<isListening, currentCallback, sensorPresent, sensor, acc>>
plVars == <<constructed, config, mounted, lastHook, pl>>
vars == <<msgVars, hwVars, stVars, accVars, plVars>>


(***************************************************************************)
(* Inputs of the messaging operations.                                     *)
(***************************************************************************)
Instances == 1..MaxInst
Messages == {"hi", "yo"}
PluginIds == {"p1"}

\* PluginMessageResponse: { message, pluginId, data? }; hasData = FALSE is an absent data field
Payloads ==
  {p \in [message : Messages, pluginId : PluginIds, hasData : BOOLEAN,
          data : StringsUpTo(MaxData)] : ~p.hasData => p.data = <<>>}

NoPayload == [message |-> "", pluginId |-> "", hasData |-> FALSE, data |-> <<>>]

OptionalBool == {"absent", "true", "false"}

\* MessageOptions: every field optional; "absent" is a key the caller did not supply
NoOptions ==
  [useLLM |-> "absent", useSerpAPI |-> "absent", wantsR1Response |-> "absent",
   wantsJournalEntry |-> "absent", pluginId |-> "absent", imageBase64 |-> "absent"]

OptionFields ==
  <<"useLLM", "useSerpAPI", "wantsR1Response", "wantsJournalEntry", "pluginId", "imageBase64">>

Options ==
  {[NoOptions EXCEPT !.useLLM = l, !.useSerpAPI = s, !.pluginId = i] :
     l \in OptionalBool, s \in OptionalBool, i \in {"absent", "p1"}}

\* { ...defaults, ...options }: a key of options overrides the same key of defaults
Spread(defaults, options) ==
  [f \in DOMAIN defaults |-> IF options[f] # "absent" THEN options[f] ELSE defaults[f]]

\* JSON.stringify of a PluginMessage: the message and then the keys that are present
Stringify(message, fields) ==
  <<message>> \o
  SelectSeq([k \in 1..Len(OptionFields) |-> <<OptionFields[k], fields[OptionFields[k]]>>],
            LAMBDA kv : kv[2] # "absent")

NoObs(op, i) ==
  [op |-> op, inst |-> i, payload |-> NoPayload, before |-> <<>>, calls |-> <<>>,
   escaped |-> FALSE, threw |-> FALSE, promise |-> "none", error |-> "none",
   posted |-> <<>>, hung |-> FALSE, message |-> "", options |-> NoOptions,
   again |-> "none"]

(***************************************************************************)
(* The closure installed as window.onPluginMessage (llm/index.ts 162-187). *)
(***************************************************************************)
\* a handler that forgets JSON.parse and hands the raw text on
ParsedDataRaw(p) ==
  IF p.hasData /\ p.data # <<>> THEN JStr(p.data) ELSE Undefined

\* lines 165-173: parsedData
ParsedData(p) ==
  IF p.hasData /\ p.data # <<>>
  THEN LET r == JSONParse(p.data) IN IF r.ok THEN r.val ELSE JStr(p.data)
  ELSE Undefined

\* a handler that hands on the message of an earlier payload
EnhancedDataStale(p) ==
  [message |-> "hi", pluginId |-> p.pluginId, hasData |-> p.hasData,
   data |-> p.data, parsedData |-> ParsedData(p)]

\* line 176: { ...data, parsedData }
EnhancedData(p) ==
  [message |-> p.message, pluginId |-> p.pluginId, hasData |-> p.hasData,
   data |-> p.data, parsedData |-> ParsedData(p)]

\* lines 177-183: this.messageHandlers.forEach(handler => { try { handler(enhancedData) } catch ... })
\* from position p on; result: the registry afterwards and the calls made, in order
\* what a handler throws is caught at line 180 and the loop goes on
\* lines 178-182: try { handler(enhancedData) } catch (error) { console.error(...) }
\* raised: the handler threw; propagates: the exception leaves the try statement
TryHandler(c) == [raised |-> Throws(c), propagates |-> FALSE]

\* visited: the <<registry, position>> pairs the loop has been at; a call made
\* at a pair it has been at before is made again without end: the calls up to
\* this one are kept and hung says that forEach never returns
RECURSIVE MessageFanOut(_, _, _, _, _)
MessageFanOut(reg, p, env, calls, visited) ==
  IF p > Len(reg) THEN [reg |-> reg, calls |-> calls, threw |-> FALSE, hung |-> FALSE]
  ELSE LET c == reg[p]
           after == ApplyOps(reg, p, CallbackOps(c))
           try == TryHandler(c)
           made == Append(calls, [c |-> c, env |-> env, threw |-> try.raised]) IN
       IF try.propagates
       THEN [reg |-> after.reg, calls |-> made, threw |-> TRUE, hung |-> FALSE]
       ELSE IF <<reg, p>> \in visited
       THEN [reg |-> after.reg, calls |-> made, threw |-> FALSE, hung |-> TRUE]
       ELSE MessageFanOut(after.reg, after.p + 1, env, made, visited \cup {<<reg, p>>})

\* lines 162-187: the whole handler; what the loop throws is caught at line 184
OnPluginMessage(reg, p) ==
  LET r == MessageFanOut(reg, 1, EnhancedData(p), <<>>, {}) IN
  [reg |-> r.reg, calls |-> r.calls, escaped |-> FALSE, hung |-> r.hung]

(***************************************************************************)
(* R1Messaging                                                             *)
(***************************************************************************)
WindowPresent == TRUE

\* an installation routine that, run on an installed dispatcher, tears it down
InitializeMessageHandlerTeardown(init, s, i) ==
  IF init \/ ~WindowPresent THEN [isInitialized |-> FALSE, slot |-> 0]
  ELSE [isInitialized |-> TRUE, slot |-> i]

\* an installation that leaves a slot alone once some instance has set it
InitializeMessageHandlerFirstWins(init, s, i) ==
  IF init \/ ~WindowPresent THEN [isInitialized |-> init, slot |-> s]
  ELSE [isInitialized |-> TRUE, slot |-> IF s = 0 THEN i ELSE s]

\* lines 158-190: returns the new <<isInitialized of i, slot>>
InitializeMessageHandler(init, s, i) ==
  IF init \/ ~WindowPresent THEN [isInitialized |-> init, slot |-> s]
  ELSE [isInitialized |-> TRUE, slot |-> i]

\* a sendMessage that drops the message when the host call-out is absent
SendMessageBodySilent(message, options, present) ==
  IF present
  THEN [threw |-> FALSE, error |-> "none",
        posted |-> <<Stringify([kind |-> "text", text |-> message], Spread(NoOptions, options))>>]
  ELSE [threw |-> FALSE, error |-> "none", posted |-> <<>>]

\* a sendMessage that hands the envelope to the host a second time
SendMessageBodyRetry(message, options, present) ==
  IF present
  THEN [threw |-> FALSE, error |-> "none",
        posted |-> <<Stringify([kind |-> "text", text |-> message], Spread(NoOptions, options)),
                     Stringify([kind |-> "text", text |-> message], Spread(NoOptions, options))>>]
  ELSE [threw |-> TRUE, error |-> "PluginMessageHandler not available", posted |-> <<>>]

\* lines 41-52: the body of sendMessage; threw is the `throw new Error(...)`
SendMessageBody(message, options, present) ==
  IF present
  THEN [threw |-> FALSE, error |-> "none",
        posted |-> <<Stringify([kind |-> "text", text |-> message], Spread(NoOptions, options))>>]
  ELSE [threw |-> TRUE, error |-> "PluginMessageHandler not available", posted |-> <<>>]

\* lines 71-87: the body of searchWeb
SearchWebBody(query, options, present) ==
  IF present
  THEN [threw |-> FALSE, error |-> "none",
        posted |-> <<Stringify([kind |-> "search", text |-> query],
                               Spread([NoOptions EXCEPT !.useSerpAPI = "true"], options))>>]
  ELSE [threw |-> TRUE, error |-> "PluginMessageHandler not available", posted |-> <<>>]

\* an `async` method: what the body throws rejects the returned promise, the call
\* itself returns normally
AsyncCall(body) ==
  [threw |-> FALSE,
   promise |-> IF body.threw THEN "rejected" ELSE "fulfilled",
   error |-> body.error,
   posted |-> body.posted]

\* `await p`: a rejected promise is thrown into the awaiting body
Await(call) ==
  [threw |-> call.promise = "rejected", error |-> call.error, posted |-> call.posted]

\* lines 59-64: the body of askLLM
AskLLMBody(message, options, present) ==
  Await(AsyncCall(SendMessageBody(message,
                                  Spread([NoOptions EXCEPT !.useLLM = "true"], options),
                                  present)))

\* lines 94-100: the body of speakText
SpeakTextBody(text, options, present) ==
  Await(AsyncCall(SendMessageBody(text,
                                  Spread([NoOptions EXCEPT !.useLLM = "false",
                                                           !.wantsR1Response = "true"],
                                         options),
                                  present)))

Regs == LET RECURSIVE Sum(_)
            Sum(S) == IF S = {} THEN 0
                      ELSE LET i == CHOOSE x \in S : TRUE IN Len(messageHandlers[i]) + Sum(S \ {i})
        IN Sum(Instances)

InitMsg ==
  /\ nInst = 1
  /\ messageHandlers = [i \in Instances |-> <<>>]
  /\ isInitialized = [i \in Instances |-> i = 1]
  /\ slot = 1
  /\ hostPresent \in BOOLEAN
  /\ obs = NoObs("new", 1)

\* new R1Messaging(): lines 28-34
Construct ==
  /\ nInst < MaxInst
  /\ LET i == nInst + 1
         r == InitializeMessageHandler(isInitialized[i], slot, i) IN
     /\ nInst' = i
     /\ isInitialized' = [isInitialized EXCEPT ![i] = r.isInitialized]
     /\ slot' = r.slot
     /\ obs' = NoObs("new", i)
  /\ UNCHANGED <<messageHandlers, hostPresent, hwVars, stVars, accVars, plVars>>

\* the installation routine run again on an instance that exists
Reinstall(i) ==
  /\ i <= nInst
  /\ LET r == InitializeMessageHandler(isInitialized[i], slot, i) IN
     /\ isInitialized' = [isInitialized EXCEPT ![i] = r.isInitialized]
     /\ slot' = r.slot
  /\ obs' = NoObs("initializeMessageHandler", i)
  /\ UNCHANGED <<messageHandlers, nInst, hostPresent, hwVars, stVars, accVars, plVars>>

\* lines 130-132
OnMessage(i, c) ==
  /\ i <= nInst
  /\ Regs < MaxMsgRegs
  /\ messageHandlers' = [messageHandlers EXCEPT ![i] = SetAdd(@, c)]
  /\ obs' = [NoObs("onMessage", i) EXCEPT
               !.again = IF c \in Elems(messageHandlers[i]) THEN c ELSE "none"]
  /\ UNCHANGED <<isInitialized, nInst, slot, hostPresent, hwVars, stVars, accVars, plVars>>

\* lines 138-140
OffMessage(i, c) ==
  /\ i <= nInst
  /\ messageHandlers' = [messageHandlers EXCEPT ![i] = SetDelete(@, c)]
  /\ obs' = NoObs("offMessage", i)
  /\ UNCHANGED <<isInitialized, nInst, slot, hostPresent, hwVars, stVars, accVars, plVars>>

\* lines 145-147
RemoveAllHandlers(i) ==
  /\ i <= nInst
  /\ messageHandlers' = [messageHandlers EXCEPT ![i] = Clear(@)]
  /\ obs' = [NoObs("removeAllHandlers", i) EXCEPT !.before = messageHandlers[i]]
  /\ UNCHANGED <<isInitialized, nInst, slot, hostPresent, hwVars, stVars, accVars, plVars>>

\* the host invokes window.onPluginMessage(p)
HostMessage(p) ==
  /\ slot # 0
  /\ LET r == OnPluginMessage(messageHandlers[slot], p) IN
     /\ messageHandlers' = [messageHandlers EXCEPT ![slot] = r.reg]
     /\ obs' = [NoObs("onPluginMessage", slot) EXCEPT
                  !.payload = p, !.before = messageHandlers[slot],
                  !.calls = r.calls, !.escaped = r.escaped, !.hung = r.hung]
  /\ UNCHANGED <<isInitialized, nInst, slot, hostPresent, hwVars, stVars, accVars, plVars>>

\* messaging.sendMessage(message, options)
SendMessage(i, message, options) ==
  /\ i <= nInst
  /\ LET r == AsyncCall(SendMessageBody(message, options, hostPresent)) IN
     obs' = [NoObs("sendMessage", i) EXCEPT
               !.threw = r.threw, !.promise = r.promise, !.error = r.error,
               !.posted = r.posted, !.message = message, !.options = options]
  /\ UNCHANGED <<messageHandlers, isInitialized, nInst, slot, hostPresent, hwVars, stVars, accVars, plVars>>

\* messaging.askLLM(message, options)
AskLLM(i, message, options) ==
  /\ i <= nInst
  /\ LET r == AsyncCall(AskLLMBody(message, options, hostPresent)) IN
     obs' = [NoObs("askLLM", i) EXCEPT
               !.threw = r.threw, !.promise = r.promise, !.error = r.error,
               !.posted = r.posted, !.message = message, !.options = options]
  /\ UNCHANGED <<messageHandlers, isInitialized, nInst, slot, hostPresent, hwVars, stVars, accVars, plVars>>

\* messaging.speakText(text, options)
SpeakText(i, text, options) ==
  /\ i <= nInst
  /\ LET r == AsyncCall(SpeakTextBody(text, options, hostPresent)) IN
     obs' = [NoObs("speakText", i) EXCEPT
               !.threw = r.threw, !.promise = r.promise, !.error = r.error,
               !.posted = r.posted, !.message = text, !.options = options]
  /\ UNCHANGED <<messageHandlers, isInitialized, nInst, slot, hostPresent, hwVars, stVars, accVars, plVars>>

\* messaging.searchWeb(query, options)
SearchWeb(i, query, options) ==
  /\ i <= nInst
  /\ LET r == AsyncCall(SearchWebBody(query, options, hostPresent)) IN
     obs' = [NoObs("searchWeb", i) EXCEPT
               !.threw = r.threw, !.promise = r.promise, !.error = r.error,
               !.posted = r.posted]
  /\ UNCHANGED <<messageHandlers, isInitialized, nInst, slot, hostPresent, hwVars, stVars, accVars, plVars>>


(***************************************************************************)
(* Hardware: the ambient event surface (window), HardwareEvents and        *)
(* DeviceControls.                                                         *)
(***************************************************************************)
Tags == {"sideClick", "longPressStart", "longPressEnd", "scrollUp", "scrollDown"}
Channels == {"sideButton", "scrollWheel"}
KeyCodes == {"Space", "Enter"}
HwConsumers == {"a", "t"}

\* a CustomEvent; source is detail.source, "none" for an event without detail
Event(type, source) == [type |-> type, source |-> source]

\* the arguments a callback is called with
NoArgs == [n |-> 0, direction |-> "none", type |-> "none", source |-> "none"]
EventArg(ev) == [n |-> 1, direction |-> "none", type |-> ev.type, source |-> ev.source]
ScrollArg(dir, ev) == [n |-> 1, direction |-> dir, type |-> ev.type, source |-> ev.source]

\* set.forEach(cb => cb(arg)) without try/catch: the first callback that throws ends
\* the loop and the exception leaves the caller
\* visited and hung: as in MessageFanOut
RECURSIVE ForEach(_, _, _, _, _)
ForEach(reg, p, arg, calls, visited) ==
  IF p > Len(reg) THEN [reg |-> reg, calls |-> calls, threw |-> FALSE, hung |-> FALSE]
  ELSE LET c == reg[p]
           after == ApplyOps(reg, p, CallbackOps(c))
           made == Append(calls, [c |-> c, arg |-> arg]) IN
       IF Throws(c)
       THEN [reg |-> after.reg, calls |-> made, threw |-> TRUE, hung |-> FALSE]
       ELSE IF <<reg, p>> \in visited
       THEN [reg |-> after.reg, calls |-> made, threw |-> FALSE, hung |-> TRUE]
       ELSE ForEach(after.reg, after.p + 1, arg, made, visited \cup {<<reg, p>>})

\* storage/index.ts 841-846: HardwareEvents.emit(event)
Emit(callbacks) == ForEach(callbacks, 1, NoArgs, <<>>, {})

\* device-controls.ts 96-99
HandleSideButtonClick(handlers, ev) == ForEach(handlers, 1, EventArg(ev), <<>>, {})

\* device-controls.ts 105-109
HandleScrollWheel(handlers, dir, ev) == ForEach(handlers, 1, ScrollArg(dir, ev), <<>>, {})

\* a listener without the `if (!this.sideButtonEnabled) return`
SideClickListenerUngated(enabled, handlers, ev) == HandleSideButtonClick(handlers, ev)

\* the listener of setupSideButtonListener (54-58)
SideClickListener(enabled, handlers, ev) ==
  IF ~enabled THEN [reg |-> handlers, calls |-> <<>>, threw |-> FALSE, hung |-> FALSE]
  ELSE HandleSideButtonClick(handlers, ev)

\* the listeners of setupScrollWheelListener (66-74)
ScrollUpListener(enabled, handlers, ev) ==
  IF ~enabled THEN [reg |-> handlers, calls |-> <<>>, threw |-> FALSE, hung |-> FALSE]
  ELSE HandleScrollWheel(handlers, "up", ev)

ScrollDownListener(enabled, handlers, ev) ==
  IF ~enabled THEN [reg |-> handlers, calls |-> <<>>, threw |-> FALSE, hung |-> FALSE]
  ELSE HandleScrollWheel(handlers, "down", ev)

\* a listener that hands its event on to the callbacks
NormalizerListenerLeaky(callbacks, ev) == ForEach(callbacks, 1, EventArg(ev), <<>>, {})

\* storage/index.ts 819-838: () => { this.emit(tag) }, the event itself is dropped
NormalizerListener(callbacks, ev) == Emit(callbacks)

\* the calls of one listener, labelled with the signal, the registry and the channel
Labelled(calls, sig, reg, chan) ==
  [k \in 1..Len(calls) |->
     [sig |-> sig, reg |-> reg, chan |-> chan, c |-> calls[k].c, arg |-> calls[k].arg]]

\* a run of window.dispatchEvent: the registries, the calls made so far, the number
\* of signals raised and of exceptions the browser reported; hung: a listener
\* never returned, so nothing after it runs
Run0(ls, els) == [listeners |-> ls, eventListeners |-> els, calls |-> <<>>,
                  signals |-> 0, reported |-> 0, hung |-> FALSE]

\* the DeviceControls listeners of the event's type, k of them, one after the other
RECURSIVE GateListeners(_, _, _, _, _)
GateListeners(run, ev, k, sbe, swe) ==
  IF k = 0 \/ run.hung THEN run
  ELSE LET chan == IF ev.type = "sideClick" THEN "sideButton" ELSE "scrollWheel"
           r == CASE ev.type = "sideClick" ->
                       SideClickListener(sbe, run.eventListeners[chan], ev)
                  [] ev.type = "scrollUp" ->
                       ScrollUpListener(swe, run.eventListeners[chan], ev)
                  [] ev.type = "scrollDown" ->
                       ScrollDownListener(swe, run.eventListeners[chan], ev) IN
       GateListeners([run EXCEPT
                        !.eventListeners = [@ EXCEPT ![chan] = r.reg],
                        !.calls = @ \o Labelled(r.calls, run.signals, "deviceControls", chan),
                        !.reported = @ + (IF r.threw THEN 1 ELSE 0),
                        !.hung = r.hung],
                     ev, k - 1, sbe, swe)

\* window.dispatchEvent(ev): the HardwareEvents listener (storage/index.ts 819-838),
\* added at construction, runs first, then the DeviceControls listeners in the
\* order init added them; what a listener throws is reported, not propagated
DispatchEvent(run, ev, nSide, nScroll, sbe, swe) ==
  LET r == NormalizerListener(run.listeners[ev.type], ev)
      sig == run.signals + 1
      afterNorm == [run EXCEPT
                      !.listeners = [@ EXCEPT ![ev.type] = r.reg],
                      !.calls = @ \o Labelled(r.calls, sig, "hardwareEvents", ev.type),
                      !.signals = sig,
                      !.reported = @ + (IF r.threw THEN 1 ELSE 0),
                      !.hung = r.hung]
      k == CASE ev.type = "sideClick" -> nSide
             [] ev.type \in {"scrollUp", "scrollDown"} -> nScroll
             [] OTHER -> 0 IN
  GateListeners(afterNorm, ev, k, sbe, swe)

\* keydown listeners that raise sideClick whatever the key is
RECURSIVE KeyListenersAnyKey(_, _, _, _, _, _, _)
KeyListenersAnyKey(run, code, k, nSide, nScroll, sbe, swe) ==
  IF k = 0 \/ run.hung THEN run
  ELSE KeyListenersAnyKey(DispatchEvent(run, Event("sideClick", "keyboard"),
                                        nSide, nScroll, sbe, swe),
                          code, k - 1, nSide, nScroll, sbe, swe)

\* the keydown listeners of setupKeyboardFallback (81-89), k of them
RECURSIVE KeyListeners(_, _, _, _, _, _, _)
KeyListeners(run, code, k, nSide, nScroll, sbe, swe) ==
  IF k = 0 \/ run.hung THEN run
  ELSE KeyListeners(IF code = "Space"
                    THEN DispatchEvent(run, Event("sideClick", "keyboard"),
                                       nSide, nScroll, sbe, swe)
                    ELSE run,
                    code, k - 1, nSide, nScroll, sbe, swe)

\* device-controls.ts 154-159
TriggerSideButtonEvent == Event("sideClick", "programmatic")

\* an init that keeps the flag it has when the option is not supplied
DcInitResultSticky(o, nSide, nScroll, nKey) ==
  LET sbe == IF o.sideButtonEnabled = "absent" THEN sideButtonEnabled
             ELSE o.sideButtonEnabled = "true"
      swe == IF o.scrollWheelEnabled = "absent" THEN scrollWheelEnabled
             ELSE o.scrollWheelEnabled = "true" IN
  [sideButtonEnabled |-> sbe,
   scrollWheelEnabled |-> swe,
   winSide |-> IF sbe THEN nSide + 1 ELSE nSide,
   winScroll |-> IF swe THEN nScroll + 1 ELSE nScroll,
   winKey |-> IF o.keyboardFallback # "false" THEN nKey + 1 ELSE nKey]

\* device-controls.ts 32-48: the flags and the listener counts after init(o)
DcInitResult(o, nSide, nScroll, nKey) ==
  LET sbe == IF o.sideButtonEnabled = "absent" THEN TRUE ELSE o.sideButtonEnabled = "true"
      swe == IF o.scrollWheelEnabled = "absent" THEN TRUE ELSE o.scrollWheelEnabled = "true" IN
  [sideButtonEnabled |-> sbe,
   scrollWheelEnabled |-> swe,
   winSide |-> IF sbe THEN nSide + 1 ELSE nSide,
   winScroll |-> IF swe THEN nScroll + 1 ELSE nScroll,
   winKey |-> IF o.keyboardFallback # "false" THEN nKey + 1 ELSE nKey]

\* init(): options = {}
DefaultOptions ==
  [sideButtonEnabled |-> "absent", scrollWheelEnabled |-> "absent",
   keyboardFallback |-> "absent"]

\* opts: the options an init call was given; written: the argument of a setter;
\* ret: the value a getter returned; again: the consumer a registration was given
\* when it was registered already (tag: where)
NoSeen(op) ==
  [op |-> op, tag |-> "none", origin |-> "none", signals |-> 0, calls |-> <<>>,
   reported |-> 0, gateBefore |-> [ch \in Channels |-> <<>>],
   normBefore |-> [t \in Tags |-> <<>>], hung |-> FALSE,
   opts |-> DefaultOptions, written |-> "none", ret |-> "none", again |-> "none"]

Seen(op, tag, origin, run) ==
  [op |-> op, tag |-> tag, origin |-> origin, signals |-> run.signals,
   calls |-> run.calls, reported |-> run.reported,
   gateBefore |-> eventListeners, normBefore |-> listeners, hung |-> run.hung,
   opts |-> DefaultOptions, written |-> "none", ret |-> "none", again |-> "none"]

\* the registrations the application has made; the closures an R1Plugin
\* registers for itself ("ph") are not counted
HwRegs ==
  LET RECURSIVE Sum(_, _)
      Sum(f, S) == IF S = {} THEN 0
                   ELSE LET x == CHOOSE y \in S : TRUE IN
                        Len(SelectSeq(f[x], LAMBDA c : c # "ph")) + Sum(f, S \ {x})
  IN Sum(listeners, Tags) + Sum(eventListeners, Channels)

InitHw ==
  /\ listeners = [t \in Tags |-> <<>>]
  /\ sideButtonEnabled = TRUE
  /\ scrollWheelEnabled = TRUE
  /\ eventListeners = [ch \in Channels |-> <<>>]
  /\ winSide = 0
  /\ winScroll = 0
  /\ winKey = 0
  /\ initCalled = FALSE
  /\ seen = NoSeen("new")

\* deviceControls.init(o)
DcInit(o) ==
  /\ winSide < MaxInit /\ winScroll < MaxInit /\ winKey < MaxInit
  /\ LET r == DcInitResult(o, winSide, winScroll, winKey) IN
     /\ sideButtonEnabled' = r.sideButtonEnabled
     /\ scrollWheelEnabled' = r.scrollWheelEnabled
     /\ winSide' = r.winSide
     /\ winScroll' = r.winScroll
     /\ winKey' = r.winKey
  /\ initCalled' = TRUE
  /\ seen' = [NoSeen("init") EXCEPT !.opts = o]
  /\ UNCHANGED <<listeners, eventListeners, msgVars, stVars, accVars, plVars>>

\* deviceControls.on(ch, c): 116-121
DcOn(ch, c) ==
  /\ HwRegs < MaxHwRegs
  /\ eventListeners' = [eventListeners EXCEPT ![ch] = SetAdd(@, c)]
  /\ seen' = IF c \in Elems(eventListeners[ch])
             THEN [NoSeen("on") EXCEPT !.tag = ch, !.again = c]
             ELSE NoSeen("on")
  /\ UNCHANGED <<listeners, sideButtonEnabled, scrollWheelEnabled, winSide, winScroll,
                 winKey, initCalled, msgVars, stVars, accVars, plVars>>

\* deviceControls.off(ch, c): 128-133
DcOff(ch, c) ==
  /\ eventListeners' = [eventListeners EXCEPT ![ch] = SetDelete(@, c)]
  /\ seen' = NoSeen("off")
  /\ UNCHANGED <<listeners, sideButtonEnabled, scrollWheelEnabled, winSide, winScroll,
                 winKey, initCalled, msgVars, stVars, accVars, plVars>>

\* a setter that writes both flags
SetBothEnabled(b) ==
  /\ sideButtonEnabled' = b
  /\ scrollWheelEnabled' = b
  /\ seen' = [NoSeen("setSideButtonEnabled") EXCEPT !.written = b]
  /\ UNCHANGED <<listeners, eventListeners, winSide, winScroll, winKey, initCalled, msgVars, stVars, accVars, plVars>>

\* 139-141
SetSideButtonEnabled(b) ==
  /\ sideButtonEnabled' = b
  /\ seen' = [NoSeen("setSideButtonEnabled") EXCEPT !.written = b]
  /\ UNCHANGED <<listeners, scrollWheelEnabled, eventListeners, winSide, winScroll,
                 winKey, initCalled, msgVars, stVars, accVars, plVars>>

\* 147-149
SetScrollWheelEnabled(b) ==
  /\ scrollWheelEnabled' = b
  /\ seen' = [NoSeen("setScrollWheelEnabled") EXCEPT !.written = b]
  /\ UNCHANGED <<listeners, sideButtonEnabled, eventListeners, winSide, winScroll,
                 winKey, initCalled, msgVars, stVars, accVars, plVars>>

\* a getter that returns the flag and leaves it true
IsSideButtonEnabledResetting ==
  /\ seen' = [NoSeen("isSideButtonEnabled") EXCEPT !.ret = sideButtonEnabled]
  /\ sideButtonEnabled' = TRUE
  /\ UNCHANGED <<listeners, scrollWheelEnabled, eventListeners, winSide, winScroll,
                 winKey, initCalled, msgVars, stVars, accVars, plVars>>

\* 164-166
IsSideButtonEnabled ==
  /\ seen' = [NoSeen("isSideButtonEnabled") EXCEPT !.ret = sideButtonEnabled]
  /\ UNCHANGED <<listeners, sideButtonEnabled, scrollWheelEnabled, eventListeners,
                 winSide, winScroll, winKey, initCalled, msgVars, stVars, accVars, plVars>>

\* 171-173
IsScrollWheelEnabled ==
  /\ seen' = [NoSeen("isScrollWheelEnabled") EXCEPT !.ret = scrollWheelEnabled]
  /\ UNCHANGED <<listeners, sideButtonEnabled, scrollWheelEnabled, eventListeners,
                 winSide, winScroll, winKey, initCalled, msgVars, stVars, accVars, plVars>>

\* hardwareEvents.on(t, c): storage/index.ts 783-788
HwOn(t, c) ==
  /\ HwRegs < MaxHwRegs
  /\ listeners' = [listeners EXCEPT ![t] = SetAdd(@, c)]
  /\ seen' = IF c \in Elems(listeners[t])
             THEN [NoSeen("hw.on") EXCEPT !.tag = t, !.again = c]
             ELSE NoSeen("hw.on")
  /\ UNCHANGED <<sideButtonEnabled, scrollWheelEnabled, eventListeners, winSide,
                 winScroll, winKey, initCalled, msgVars, stVars, accVars, plVars>>

\* hardwareEvents.off(t, c): storage/index.ts 795-800
HwOff(t, c) ==
  /\ listeners' = [listeners EXCEPT ![t] = SetDelete(@, c)]
  /\ seen' = NoSeen("hw.off")
  /\ UNCHANGED <<sideButtonEnabled, scrollWheelEnabled, eventListeners, winSide,
                 winScroll, winKey, initCalled, msgVars, stVars, accVars, plVars>>

\* a removeAllListeners that reaches into the gate's registry as well
HwRemoveAllListenersBoth(e) ==
  /\ listeners' = [t \in Tags |-> IF e = "all" \/ e = t THEN Clear(listeners[t])
                                   ELSE listeners[t]]
  /\ eventListeners' = [ch \in Channels |-> Clear(eventListeners[ch])]
  /\ seen' = [NoSeen("hw.removeAllListeners") EXCEPT !.tag = e]
  /\ UNCHANGED <<sideButtonEnabled, scrollWheelEnabled, winSide,
                 winScroll, winKey, initCalled, msgVars, stVars, accVars, plVars>>

\* hardwareEvents.removeAllListeners(e): storage/index.ts 806-812; e = "all" is
\* the call without an argument.  A tag without a map entry is a tag with no
\* callbacks: emit skips it and on makes a new Set for it.
HwRemoveAllListeners(e) ==
  /\ listeners' = [t \in Tags |-> IF e = "all" \/ e = t THEN Clear(listeners[t])
                                   ELSE listeners[t]]
  /\ seen' = [NoSeen("hw.removeAllListeners") EXCEPT !.tag = e]
  /\ UNCHANGED <<sideButtonEnabled, scrollWheelEnabled, eventListeners, winSide,
                 winScroll, winKey, initCalled, msgVars, stVars, accVars, plVars>>

\* the outcome of a stimulus: the registries and what was seen
Stimulus(op, tag, origin, run) ==
  /\ listeners' = run.listeners
  /\ eventListeners' = run.eventListeners
  /\ seen' = Seen(op, tag, origin, run)
  /\ UNCHANGED <<sideButtonEnabled, scrollWheelEnabled, winSide, winScroll, winKey,
                 initCalled, msgVars, stVars, accVars, plVars>>

\* the host raises the ambient signal t on window
NativeSignal(t) ==
  Stimulus("signal", t, "native",
           DispatchEvent(Run0(listeners, eventListeners), Event(t, "none"),
                         winSide, winScroll, sideButtonEnabled, scrollWheelEnabled))

\* a key is pressed
KeyDown(code) ==
  Stimulus("keydown", code, "keyboard",
           KeyListeners(Run0(listeners, eventListeners), code, winKey,
                        winSide, winScroll, sideButtonEnabled, scrollWheelEnabled))

\* a trigger that calls handleSideButtonClick itself instead of raising the signal
TriggerSideButtonDirect ==
  LET r == HandleSideButtonClick(eventListeners["sideButton"], TriggerSideButtonEvent)
      run == [Run0(listeners, eventListeners) EXCEPT
                !.eventListeners = [@ EXCEPT !["sideButton"] = r.reg],
                !.calls = Labelled(r.calls, 1, "deviceControls", "sideButton"),
                !.signals = 1,
                !.hung = r.hung] IN
  Stimulus("triggerSideButton", "sideClick", "programmatic", run)

\* deviceControls.triggerSideButton()
TriggerSideButton ==
  Stimulus("triggerSideButton", "sideClick", "programmatic",
           DispatchEvent(Run0(listeners, eventListeners), TriggerSideButtonEvent,
                         winSide, winScroll, sideButtonEnabled, scrollWheelEnabled))

(***************************************************************************)
(* Storage: Base64Utils and StorageWrapper (storage/index.ts 11-106) over  *)
(* the host's window.creationStorage.plain.                                *)
(***************************************************************************)
Null == [t |-> "null", s |-> <<>>, n |-> 0, e |-> <<>>]

\* the decimal digits of a natural number, as JSON.stringify writes them
RECURSIVE Digits(_)
Digits(num) ==
  LET d == <<"0", "1", "2", "3", "4", "5", "6", "7", "8", "9">>[(num % 10) + 1] IN
  IF num < 10 THEN <<d>> ELSE Append(Digits(num \div 10), d)

\* JSON.stringify of a value; no character of the alphabet inside a string of an
\* array needs an escape but the double quote
RECURSIVE JSONStringify(_)
JSONStringify(v) ==
  CASE v.t = "number" -> Digits(v.n)
    [] v.t = "string" ->
         LET RECURSIVE Esc(_)
             Esc(str) == IF str = <<>> THEN <<>>
                         ELSE (IF Head(str) = "\"" THEN <<"\\", "\"">> ELSE <<Head(str)>>)
                              \o Esc(Tail(str)) IN
         <<"\"">> \o Esc(v.s) \o <<"\"">>
    [] v.t = "array" ->
         LET RECURSIVE Join(_)
             Join(es) == IF es = <<>> THEN <<>>
                         ELSE IF Len(es) = 1 THEN JSONStringify(es[1])
                         ELSE JSONStringify(es[1]) \o <<",">> \o Join(Tail(es)) IN
         <<"[">> \o Join(v.e) \o <<"]">>
    [] OTHER -> <<"n", "u", "l", "l">>

\* the Latin-1 code of a character of the alphabet
CharCode(c) ==
  CASE c = " " -> 32
    [] c = "\"" -> 34
    [] c = "1" -> 49
    [] c = "[" -> 91
    [] c = "]" -> 93
    [] OTHER -> 63

\* String.fromCharCode; a code outside the alphabet is shown as "?"
FromCharCode(b) ==
  IF \E c \in Chars : CharCode(c) = b THEN CHOOSE c \in Chars : CharCode(c) = b ELSE "?"

Base64Alphabet ==
  <<"A", "B", "C", "D", "E", "F", "G", "H", "I", "J", "K", "L", "M", "N", "O", "P",
    "Q", "R", "S", "T", "U", "V", "W", "X", "Y", "Z", "a", "b", "c", "d", "e", "f",
    "g", "h", "i", "j", "k", "l", "m", "n", "o", "p", "q", "r", "s", "t", "u", "v",
    "w", "x", "y", "z", "0", "1", "2", "3", "4", "5", "6", "7", "8", "9", "+", "/">>

\* btoa: three bytes make four sextets, the last group is padded with "="
RECURSIVE Btoa(_)
Btoa(str) ==
  IF str = <<>> THEN <<>>
  ELSE LET b1 == CharCode(str[1])
           b2 == IF Len(str) >= 2 THEN CharCode(str[2]) ELSE 0
           b3 == IF Len(str) >= 3 THEN CharCode(str[3]) ELSE 0
           x == b1 * 65536 + b2 * 256 + b3
           s1 == Base64Alphabet[(x \div 262144) + 1]
           s2 == Base64Alphabet[((x \div 4096) % 64) + 1]
           s3 == Base64Alphabet[((x \div 64) % 64) + 1]
           s4 == Base64Alphabet[(x % 64) + 1] IN
       IF Len(str) = 1 THEN <<s1, s2, "=", "=">>
       ELSE IF Len(str) = 2 THEN <<s1, s2, s3, "=">>
       ELSE <<s1, s2, s3, s4>> \o Btoa(SubSeq(str, 4, Len(str)))

Sextet(ch) == (CHOOSE k \in 1..64 : Base64Alphabet[k] = ch) - 1

\* atob: [ok, str]; ok = FALSE is the InvalidCharacterError it throws
Atob(enc) ==
  LET pad == IF Len(enc) % 4 = 0 /\ Len(enc) >= 2 /\ enc[Len(enc)] = "="
             THEN (IF enc[Len(enc) - 1] = "=" THEN 2 ELSE 1) ELSE 0
      body == SubSeq(enc, 1, Len(enc) - pad)
      RECURSIVE Bytes(_)
      Bytes(b) ==
        IF Len(b) < 2 THEN <<>>
        ELSE LET x == Sextet(b[1]) * 262144 + Sextet(b[2]) * 4096
                      + (IF Len(b) >= 3 THEN Sextet(b[3]) * 64 ELSE 0)
                      + (IF Len(b) >= 4 THEN Sextet(b[4]) ELSE 0) IN
             <<FromCharCode(x \div 65536)>>
             \o (IF Len(b) >= 3 THEN <<FromCharCode((x \div 256) % 256)>> ELSE <<>>)
             \o (IF Len(b) >= 4 THEN <<FromCharCode(x % 256)>> \o Bytes(SubSeq(b, 5, Len(b)))
                 ELSE <<>>) IN
  IF Len(body) % 4 = 1 \/ \E k \in 1..Len(body) : \A j \in 1..64 : Base64Alphabet[j] # body[k]
  THEN [ok |-> FALSE, str |-> <<>>]
  ELSE [ok |-> TRUE, str |-> Bytes(body)]

\* lines 16-19: Base64Utils.encode
Encode(data) == Btoa(IF data.t = "string" THEN data.s ELSE JSONStringify(data))

\* lines 36-46: Base64Utils.safeDecode; encoded is [present, s], null when absent
SafeDecode(encoded, parseJson) ==
  IF ~encoded.present \/ encoded.s = <<>> THEN Null
  ELSE LET decoded == Atob(encoded.s) IN
       IF ~decoded.ok THEN Null
       ELSE IF parseJson
            THEN (IF JSONParse(decoded.str).ok THEN JSONParse(decoded.str).val ELSE Null)
            ELSE JStr(decoded.str)

Keys == {"user"}
NoItem == [present |-> FALSE, s |-> <<>>]

\* the values application code stores: every string and every value that some
\* JSON text up to MaxData denotes (numbers and arrays, which are objects)
StorageValues ==
  {JStr(str) : str \in StringsUpTo(MaxData)}
  \cup {JSONParse(str).val : str \in {x \in StringsUpTo(MaxData) : JSONParse(x).ok}}

NoGot(op, key) == [op |-> op, key |-> key, value |-> Null, ret |-> Null]

InitSt ==
  /\ creationStorage = [k \in Keys |-> NoItem]
  /\ got = NoGot("new", "")

\* storage.plain.setItem(key, value): lines 60-63
SetItem(key, value) ==
  /\ creationStorage' = [creationStorage EXCEPT ![key] = [present |-> TRUE, s |-> Encode(value)]]
  /\ got' = [NoGot("setItem", key) EXCEPT !.value = value]
  /\ UNCHANGED <<msgVars, hwVars, accVars, plVars>>

\* storage.plain.getItem(key, parseJson): lines 70-73
GetItem(key, parseJson) ==
  /\ got' = [NoGot(IF parseJson THEN "getItem" ELSE "getItem.noParse", key) EXCEPT
               !.ret = SafeDecode(creationStorage[key], parseJson)]
  /\ UNCHANGED <<creationStorage, msgVars, hwVars, accVars, plVars>>

\* storage.plain.removeItem(key): lines 79-81
RemoveItem(key) ==
  /\ creationStorage' = [creationStorage EXCEPT ![key] = NoItem]
  /\ got' = NoGot("removeItem", key)
  /\ UNCHANGED <<msgVars, hwVars, accVars, plVars>>

\* storage.plain.clear(): lines 86-88
ClearStorage ==
  /\ creationStorage' = [k \in Keys |-> NoItem]
  /\ got' = NoGot("clear", "")
  /\ UNCHANGED <<msgVars, hwVars, accVars, plVars>>


(***************************************************************************)
(* AccelerometerAPI (storage/index.ts 670-716) over the host sensor        *)
(* window.creationSensors.accelerometer.                                   *)
(***************************************************************************)
AccCallbacks == {"f", "g", "h"}
Frequencies == {"absent", "30", "60"}
Samples == {"x", "y", "z"}

SensorIdle == [callback |-> "undefined", frequency |-> "absent"]

NoAcc(op, between) ==
  [op |-> op, ret |-> "none", between |-> between, delivered |-> <<>>]

\* lines 702-708: the fields and the host sensor after stop()
AccStopResult(listening, cb, present, sn) ==
  IF listening /\ present
  THEN [isListening |-> FALSE, currentCallback |-> "undefined", sensor |-> SensorIdle]
  ELSE [isListening |-> listening, currentCallback |-> cb, sensor |-> sn]

InitAcc ==
  /\ isListening = FALSE
  /\ currentCallback = "undefined"
  /\ sensorPresent = FALSE
  /\ sensor = SensorIdle
  /\ acc = NoAcc("new", FALSE)

\* the host defines window.creationSensors.accelerometer before the first call
\* of the page, or, as in a desktop browser, never
HostSensor ==
  /\ acc.op = "new"
  /\ ~sensorPresent
  /\ sensorPresent' = TRUE
  /\ UNCHANGED <<isListening, currentCallback, sensor, acc, msgVars, hwVars, stVars, plVars>>

\* accelerometer.start(callback, options): lines 686-697
AccStart(callback, frequency) ==
  /\ LET stopped == IF isListening
                    THEN AccStopResult(isListening, currentCallback, sensorPresent, sensor)
                    ELSE [isListening |-> isListening, currentCallback |-> currentCallback,
                          sensor |-> sensor] IN
     /\ currentCallback' = callback
     /\ isListening' = TRUE
     /\ sensor' = IF sensorPresent
                  THEN [callback |-> callback, frequency |-> frequency]
                  ELSE stopped.sensor
  /\ acc' = NoAcc("start", TRUE)
  /\ UNCHANGED <<sensorPresent, msgVars, hwVars, stVars, plVars>>

\* accelerometer.stop(): lines 702-708
AccStop ==
  /\ LET r == AccStopResult(isListening, currentCallback, sensorPresent, sensor) IN
     /\ isListening' = r.isListening
     /\ currentCallback' = r.currentCallback
     /\ sensor' = r.sensor
  /\ acc' = NoAcc("stop", FALSE)
  /\ UNCHANGED <<sensorPresent, msgVars, hwVars, stVars, plVars>>

\* accelerometer.isActive(): lines 713-715
AccIsActive ==
  /\ acc' = [NoAcc("isActive", acc.between) EXCEPT !.ret = isListening]
  /\ UNCHANGED <<isListening, currentCallback, sensorPresent, sensor,
                 msgVars, hwVars, stVars, plVars>>

\* the host sensor hands a sample to the callback it was started with
AccSample(d) ==
  /\ sensor.callback # "undefined"
  /\ acc' = [NoAcc("sample", acc.between) EXCEPT !.delivered = <<sensor.callback, d>>]
  /\ UNCHANGED <<isListening, currentCallback, sensorPresent, sensor,
                 msgVars, hwVars, stVars, plVars>>

(***************************************************************************)
(* R1Plugin (index.ts 184-232): a configuration of four optional           *)
(* callbacks.  onMount and onUnmount are given by what they do when they   *)
(* are called: return, throw, or call back into the plugin (an onMount     *)
(* that calls unmount, an onUnmount that calls mount); onMessage and       *)
(* onHardwareEvent are present or absent.  A configuration whose onMount   *)
(* unmounts and whose onUnmount mounts never returns and is left out.      *)
(***************************************************************************)
OnMountKinds == {"absent", "returns", "throws", "unmounts"}
OnUnmountKinds == {"absent", "returns", "throws", "mounts"}

PluginConfigs ==
  {cfg \in [onMount : OnMountKinds, onUnmount : OnUnmountKinds,
            onMessage : BOOLEAN, onHardwareEvent : BOOLEAN] :
     ~(cfg.onMount = "unmounts" /\ cfg.onUnmount = "mounts")}

\* the configurations whose lifecycle callbacks are present and return
ForwardConfigs ==
  {cfg \in PluginConfigs : cfg.onMount = "returns" /\ cfg.onUnmount = "returns"}

EmptyConfig == [onMount |-> "absent", onUnmount |-> "absent",
                onMessage |-> FALSE, onHardwareEvent |-> FALSE]

\* `this.config.onMount?.()`: the hook is reached, the callback is called if present
Hook(name, kind) == [hook |-> name, called |-> kind # "absent"]

NoPl(op) == [op |-> op, mountedBefore |-> FALSE, hookBefore |-> "none",
             events |-> <<>>, threw |-> FALSE]

RECURSIVE PluginMountBody(_, _), PluginUnmountBody(_, _)

\* a mount without the `if (this.mounted) return`
PluginMountBodyUnguarded(m, cfg) ==
  LET ev == <<Hook("onMount", cfg.onMount)>> IN
  CASE cfg.onMount = "throws" -> [mounted |-> TRUE, events |-> ev, threw |-> TRUE]
    [] cfg.onMount = "unmounts" ->
         LET r == PluginUnmountBody(TRUE, cfg) IN
         [mounted |-> r.mounted, events |-> ev \o r.events, threw |-> r.threw]
    [] OTHER -> [mounted |-> TRUE, events |-> ev, threw |-> FALSE]

\* mount(): lines 196-201.  The flag is set before the callback is called, so
\* a callback that throws leaves the plugin mounted.
PluginMountBody(m, cfg) ==
  IF m THEN [mounted |-> m, events |-> <<>>, threw |-> FALSE]
  ELSE LET ev == <<Hook("onMount", cfg.onMount)>> IN
       CASE cfg.onMount = "throws" -> [mounted |-> TRUE, events |-> ev, threw |-> TRUE]
         [] cfg.onMount = "unmounts" ->
              LET r == PluginUnmountBody(TRUE, cfg) IN
              [mounted |-> r.mounted, events |-> ev \o r.events, threw |-> r.threw]
         [] OTHER -> [mounted |-> TRUE, events |-> ev, threw |-> FALSE]

\* unmount(): lines 203-208
PluginUnmountBody(m, cfg) ==
  IF ~m THEN [mounted |-> m, events |-> <<>>, threw |-> FALSE]
  ELSE LET ev == <<Hook("onUnmount", cfg.onUnmount)>> IN
       CASE cfg.onUnmount = "throws" -> [mounted |-> FALSE, events |-> ev, threw |-> TRUE]
         [] cfg.onUnmount = "mounts" ->
              LET r == PluginMountBody(FALSE, cfg) IN
              [mounted |-> r.mounted, events |-> ev \o r.events, threw |-> r.threw]
         [] OTHER -> [mounted |-> FALSE, events |-> ev, threw |-> FALSE]

InitPl ==
  /\ constructed = FALSE
  /\ config = EmptyConfig
  /\ mounted = FALSE
  /\ lastHook = "none"
  /\ pl = NoPl("none")

\* new R1Plugin(cfg) / createPlugin(cfg): constructor 187-194 and
\* setupEventListeners 210-232.  config.onMessage itself ("pm") is registered
\* with the exported `messaging` instance; for each of the five tags a new
\* closure ("ph") that calls config.onHardwareEvent with the tag's name is
\* registered with hardwareEvents.
PluginNew(cfg) ==
  /\ ~constructed
  /\ constructed' = TRUE
  /\ config' = cfg
  /\ mounted' = FALSE
  /\ lastHook' = "none"
  /\ pl' = NoPl("new")
  /\ messageHandlers' = IF cfg.onMessage
                        THEN [messageHandlers EXCEPT ![1] = SetAdd(@, "pm")]
                        ELSE messageHandlers
  /\ listeners' = IF cfg.onHardwareEvent
                  THEN [t \in Tags |-> SetAdd(listeners[t], "ph")]
                  ELSE listeners
  /\ UNCHANGED <<isInitialized, nInst, slot, hostPresent, obs, sideButtonEnabled,
                 scrollWheelEnabled, eventListeners, winSide, winScroll, winKey,
                 initCalled, seen, stVars, accVars>>

\* the outcome of a lifecycle call
Lifecycle(op, r) ==
  /\ constructed
  /\ mounted' = r.mounted
  /\ lastHook' = IF r.events = <<>> THEN lastHook ELSE r.events[Len(r.events)].hook
  /\ pl' = [op |-> op, mountedBefore |-> mounted, hookBefore |-> lastHook,
            events |-> r.events, threw |-> r.threw]
  /\ UNCHANGED <<constructed, config, msgVars, hwVars, stVars, accVars>>

\* plugin.mount()
PluginMount == Lifecycle("mount", PluginMountBody(mounted, config))

\* plugin.unmount()
PluginUnmount == Lifecycle("unmount", PluginUnmountBody(mounted, config))

(***************************************************************************)
(* Specifications.                                                         *)
(***************************************************************************)
Init == InitMsg /\ InitHw /\ InitSt /\ InitAcc /\ InitPl

\* the payloads of Spec: both messages, data absent, empty, JSON and not JSON
SamplePayloads == {p \in Payloads : Len(p.data) <= 1}

\* the response dispatcher
Next ==
  \/ Construct
  \/ \E i \in Instances : Reinstall(i)
  \/ \E i \in Instances, c \in Consumers : OnMessage(i, c)
  \/ \E i \in Instances, c \in Consumers : OffMessage(i, c)
  \/ \E i \in Instances : RemoveAllHandlers(i)
  \/ \E p \in SamplePayloads : HostMessage(p)

Spec == Init /\ [][Next]_vars

\* the outbound call
NextSend ==
  \/ Construct
  \/ \E i \in Instances, m \in Messages, o \in Options : SendMessage(i, m, o)
  \/ \E i \in Instances, q \in Messages, o \in Options : SearchWeb(i, q, o)

SpecSend == Init /\ [][NextSend]_vars

\* the storage wrapper
NextStorage ==
  \/ \E k \in Keys, v \in StorageValues : SetItem(k, v)
  \/ \E k \in Keys, j \in BOOLEAN : GetItem(k, j)
  \/ \E k \in Keys : RemoveItem(k)
  \/ ClearStorage

SpecStorage == Init /\ [][NextStorage]_vars

\* the gate's and the normalizer's registries side by side
NextDisjoint ==
  \/ \E o \in [sideButtonEnabled : {"absent", "false"}, scrollWheelEnabled : {"absent"},
               keyboardFallback : {"false"}] : DcInit(o)
  \/ \E ch \in Channels, c \in HwConsumers : DcOn(ch, c)
  \/ \E ch \in Channels, c \in HwConsumers : DcOff(ch, c)
  \/ \E t \in {"sideClick", "scrollUp"}, c \in HwConsumers : HwOn(t, c)
  \/ \E t \in {"sideClick", "scrollUp"}, c \in HwConsumers : HwOff(t, c)
  \/ \E e \in {"sideClick", "scrollUp", "all"} : HwRemoveAllListeners(e)
  \/ \E t \in {"sideClick", "scrollUp"} : NativeSignal(t)

SpecDisjoint == Init /\ [][NextDisjoint]_vars

\* the three registries: registration, removal and one dispatch path each
NextRegistry ==
  \/ \E c \in {"a", "t"} : OnMessage(1, c)
  \/ \E c \in {"a", "t"} : OffMessage(1, c)
  \/ HostMessage([NoPayload EXCEPT !.message = "hi"])
  \/ \E t \in {"sideClick", "scrollUp"}, c \in HwConsumers : HwOn(t, c)
  \/ \E t \in {"sideClick", "scrollUp"}, c \in HwConsumers : HwOff(t, c)
  \/ DcInit(DefaultOptions)
  \/ \E ch \in Channels, c \in HwConsumers : DcOn(ch, c)
  \/ \E ch \in Channels, c \in HwConsumers : DcOff(ch, c)
  \/ \E t \in {"sideClick", "scrollUp"} : NativeSignal(t)

SpecRegistry == Init /\ [][NextRegistry]_vars

\* the accelerometer
NextAcc ==
  \/ HostSensor
  \/ \E cb \in AccCallbacks, fr \in Frequencies : AccStart(cb, fr)
  \/ AccStop
  \/ AccIsActive
  \/ \E d \in Samples : AccSample(d)

SpecAcc == Init /\ [][NextAcc]_vars

\* the lifecycle of one plugin, over every configuration
NextPlugin ==
  \/ \E cfg \in PluginConfigs : PluginNew(cfg)
  \/ PluginMount
  \/ PluginUnmount

SpecPlugin == Init /\ [][NextPlugin]_vars

\* a plugin next to an application that registers with hardwareEvents itself
NextForward ==
  \/ \E cfg \in ForwardConfigs : PluginNew(cfg)
  \/ PluginMount
  \/ PluginUnmount
  \/ \E t \in {"sideClick", "scrollUp"}, c \in HwConsumers : HwOn(t, c)
  \/ \E t \in Tags : NativeSignal(t)
  \/ HostMessage([NoPayload EXCEPT !.message = "hi"])

SpecForward == Init /\ [][NextForward]_vars

\* the options objects a caller hands to sendMessage, askLLM and speakText
EnvelopeOptions ==
  {[NoOptions EXCEPT !.useLLM = l, !.wantsR1Response = r, !.pluginId = i] :
     l \in OptionalBool, r \in OptionalBool, i \in {"absent", "p1"}}

\* the outbound envelope of sendMessage and of the calls built on it
NextEnvelope ==
  \/ Construct
  \/ \E i \in Instances, m \in Messages, o \in EnvelopeOptions : SendMessage(i, m, o)
  \/ \E i \in Instances, m \in Messages, o \in EnvelopeOptions : AskLLM(i, m, o)
  \/ \E i \in Instances, m \in Messages, o \in EnvelopeOptions : SpeakText(i, m, o)

SpecEnvelope == Init /\ [][NextEnvelope]_vars

\* classification of the inbound payload: every data string up to MaxData
ClassifyPayloads == {p \in Payloads : p.message = "hi"}

NextClassify ==
  \/ \E c \in {"a", "t"} : OnMessage(1, c)
  \/ \E c \in {"a", "t"} : OffMessage(1, c)
  \/ \E p \in ClassifyPayloads : HostMessage(p)

SpecClassify == Init /\ [][NextClassify]_vars

\* hardware: the gate, and the normalizer's sideClick registry
NextHw ==
  \/ \E o \in [sideButtonEnabled : OptionalBool, scrollWheelEnabled : OptionalBool,
               keyboardFallback : OptionalBool] : DcInit(o)
  \/ \E ch \in Channels, c \in HwConsumers : DcOn(ch, c)
  \/ \E ch \in Channels, c \in HwConsumers : DcOff(ch, c)
  \/ \E b \in BOOLEAN : SetSideButtonEnabled(b)
  \/ \E b \in BOOLEAN : SetScrollWheelEnabled(b)
  \/ \E c \in HwConsumers : HwOn("sideClick", c)
  \/ \E c \in HwConsumers : HwOff("sideClick", c)
  \/ \E t \in Tags : NativeSignal(t)
  \/ \E code \in KeyCodes : KeyDown(code)
  \/ TriggerSideButton

SpecHw == Init /\ [][NextHw]_vars

\* the normalizer with its five tags
NextNorm ==
  \/ \E t \in Tags, c \in HwConsumers : HwOn(t, c)
  \/ \E t \in Tags, c \in HwConsumers : HwOff(t, c)
  \/ \E e \in Tags \cup {"all"} : HwRemoveAllListeners(e)
  \/ \E t \in Tags : NativeSignal(t)

SpecNorm == Init /\ [][NextNorm]_vars

InitOptions ==
  [sideButtonEnabled : OptionalBool, scrollWheelEnabled : OptionalBool,
   keyboardFallback : OptionalBool]

\* the configuration of the gate: init, the setters, the getters and the
\* registrations
NextFrame ==
  \/ \E o \in InitOptions : DcInit(o)
  \/ \E ch \in Channels, c \in HwConsumers : DcOn(ch, c)
  \/ \E c \in HwConsumers : HwOn("sideClick", c)
  \/ \E b \in BOOLEAN : SetSideButtonEnabled(b)
  \/ \E b \in BOOLEAN : SetScrollWheelEnabled(b)
  \/ IsSideButtonEnabled
  \/ IsScrollWheelEnabled

SpecFrame == Init /\ [][NextFrame]_vars

\* the dispatcher with every operation of its API
NextLife ==
  \/ Construct
  \/ \E i \in Instances : Reinstall(i)
  \/ \E i \in Instances, c \in {"a", "t"} : OnMessage(i, c)
  \/ \E i \in Instances, c \in {"a", "t"} : OffMessage(i, c)
  \/ \E i \in Instances : RemoveAllHandlers(i)
  \/ \E p \in {q \in SamplePayloads : ~q.hasData} : HostMessage(p)
  \/ \E i \in Instances : SendMessage(i, "hi", NoOptions)
  \/ \E i \in Instances : SearchWeb(i, "hi", NoOptions)

SpecLife == Init /\ [][NextLife]_vars

\* a forEach that never returns keeps the only thread: nothing runs after it
Running == ~obs.hung /\ ~seen.hung

\* the three kinds of registry with consumers that change the registry they are
\* called from
NextReentrant ==
  \/ Running /\ \E c \in ReentrantConsumers : OnMessage(1, c)
  \/ Running /\ \E c \in ReentrantConsumers : OffMessage(1, c)
  \/ Running /\ \E p \in {q \in SamplePayloads : q.message = "hi" /\ ~q.hasData} : HostMessage(p)
  \/ Running /\ DcInit(DefaultOptions)
  \/ Running /\ \E c \in ReentrantConsumers : DcOn("sideButton", c)
  \/ Running /\ \E c \in ReentrantConsumers : HwOn("sideClick", c)
  \/ Running /\ NativeSignal("sideClick")

SpecReentrant == Init /\ [][NextReentrant]_vars


(***************************************************************************)
(* Claims.                                                                 *)
(***************************************************************************)
IsDispatch == obs.op = "onPluginMessage"

\* the calls of the last dispatch made to the consumer c
Called(c) == {k \in 1..Len(obs.calls) : obs.calls[k].c = c}

DerivedFrom(env, p) ==
  /\ env.message = p.message
  /\ env.pluginId = p.pluginId
  /\ env.hasData = p.hasData
  /\ env.data = p.data

\* C1: one invocation of the inbound slot invokes each of the N consumers
\* registered when it starts exactly once, with an envelope derived from the
\* payload, and invokes nothing else.
C1_FanOutCompleteness ==
  IsDispatch =>
    /\ \A c \in Elems(obs.before) : Cardinality(Called(c)) = 1
    /\ \A k \in 1..Len(obs.calls) :
         /\ obs.calls[k].c \in Elems(obs.before)
         /\ DerivedFrom(obs.calls[k].env, obs.payload)

\* C2: if a consumer throws during the fan-out of a payload, every other
\* registered consumer is still invoked and nothing propagates to the host.
C2_ConsumerIsolation ==
  (IsDispatch /\ \E k \in 1..Len(obs.calls) : obs.calls[k].threw) =>
    /\ \A c \in Elems(obs.before) : Called(c) # {}
    /\ ~obs.escaped

\* C3: for every data string that is not valid JSON, the empty string
\* included, the parsedData consumers get is that string unchanged, never
\* undefined.
C3_ClassificationFallback ==
  (IsDispatch /\ obs.payload.hasData /\ ~JSONParse(obs.payload.data).ok) =>
    \A k \in 1..Len(obs.calls) :
      obs.calls[k].env.parsedData = JStr(obs.payload.data)

\* C4: when data is valid JSON, every consumer invoked in the dispatch observes
\* parsedData equal to the parsed value of data, the same for all of them.
C4_StructuredClassification ==
  (IsDispatch /\ obs.payload.hasData /\ JSONParse(obs.payload.data).ok) =>
    /\ \A k \in 1..Len(obs.calls) :
         obs.calls[k].env.parsedData = JSONParse(obs.payload.data).val
    /\ \A j, k \in 1..Len(obs.calls) :
         obs.calls[j].env.parsedData = obs.calls[k].env.parsedData
    /\ obs.payload.data = <<" ", "1">> =>
         \A k \in 1..Len(obs.calls) : obs.calls[k].env.parsedData = JNum(1)
    /\ obs.payload.data = <<"[", "1", "]">> =>
         \A k \in 1..Len(obs.calls) : obs.calls[k].env.parsedData = JArr(<<JNum(1)>>)

C4_Witness ==
  /\ IsDispatch
  /\ obs.payload.data = <<"[", "1", "]">>
  /\ Len(obs.calls) = 2

\* the consumers registered on the instance i when the last dispatch started
RegisteredOn(i) == IF i = obs.inst THEN obs.before ELSE messageHandlers[i]

\* C5: after the installation routine has run two or more times, one payload
\* from the host is dispatched to each registered consumer once, never twice.
C5_IdempotentInstall ==
  (IsDispatch /\ nInst >= 2) =>
    \A i \in 1..nInst : \A c \in Elems(RegisteredOn(i)) : Cardinality(Called(c)) = 1

IsSend == obs.op \in {"sendMessage", "searchWeb"}

IsStimulus == seen.op \in {"signal", "keydown", "triggerSideButton"}

\* the calls of the last stimulus made by the gate on the channel ch
GateCalls(ch) ==
  {k \in 1..Len(seen.calls) :
     seen.calls[k].reg = "deviceControls" /\ seen.calls[k].chan = ch}

\* the calls of the last stimulus made by the normalizer for the tag t
NormCalls(t) ==
  {k \in 1..Len(seen.calls) :
     seen.calls[k].reg = "hardwareEvents" /\ seen.calls[k].chan = t}

\* C6: while sideButtonEnabled is false no sideClick signal, whatever its
\* origin, invokes a 'sideButton' consumer; while scrollWheelEnabled is false no
\* scroll signal invokes a 'scrollWheel' consumer.
C6_GateSuppression ==
  IsStimulus =>
    /\ ~sideButtonEnabled => GateCalls("sideButton") = {}
    /\ ~scrollWheelEnabled => GateCalls("scrollWheel") = {}

C6_Witness ==
  /\ seen.op = "keydown"
  /\ seen.signals >= 1
  /\ ~sideButtonEnabled
  /\ winSide >= 1
  /\ eventListeners["sideButton"] # <<>>

\* every 'sideButton' consumer registered now would be invoked by a sideClick
\* signal raised now
SideDelivers ==
  LET run == DispatchEvent(Run0(listeners, eventListeners), Event("sideClick", "none"),
                           winSide, winScroll, sideButtonEnabled, scrollWheelEnabled) IN
  \A c \in Elems(eventListeners["sideButton"]) :
    \E k \in 1..Len(run.calls) :
      run.calls[k].reg = "deviceControls" /\ run.calls[k].c = c

\* C7: once init has run, whenever the side button flag is false and
\* setSideButtonEnabled sets it back to true, the signals raised from then on
\* are delivered to every registered gate consumer, without init being called
\* again.
C7_ReenableRestoresDelivery ==
  [][(initCalled /\ ~sideButtonEnabled /\ sideButtonEnabled'
      /\ seen'.op = "setSideButtonEnabled") => SideDelivers']_vars

\* the normalizer's calls for one sideClick event raised in the current state
NormalizerSees(ev) ==
  LET run == DispatchEvent(Run0(listeners, eventListeners), ev,
                           winSide, winScroll, sideButtonEnabled, scrollWheelEnabled) IN
  SelectSeq(run.calls, LAMBDA call : call.reg = "hardwareEvents")

\* C8: a consumer registered on the normalizer's 'sideClick' tag is called with
\* the same arguments (none) whether the signal is native, comes from the Space
\* key or from triggerSideButton: in every state the three origins give the same
\* calls.
C8_OriginIndistinguishable ==
  /\ \A k \in NormCalls("sideClick") : seen.calls[k].arg = NoArgs
  /\ NormalizerSees(Event("sideClick", "none")) = NormalizerSees(Event("sideClick", "keyboard"))
  /\ NormalizerSees(Event("sideClick", "none")) = NormalizerSees(TriggerSideButtonEvent)

C8_Witness ==
  /\ seen.op = "keydown"
  /\ seen.origin = "keyboard"
  /\ NormCalls("sideClick") # {}

\* C10: once the gate is configured with scrollWheelEnabled true, each scrollUp
\* signal invokes every registered 'scrollWheel' consumer exactly once with
\* direction 'up', each scrollDown signal exactly once with direction 'down'.
C10_ScrollPayload ==
  (seen.op = "signal" /\ seen.tag \in {"scrollUp", "scrollDown"}
   /\ initCalled /\ winScroll >= 1 /\ scrollWheelEnabled) =>
    \A c \in Elems(seen.gateBefore["scrollWheel"]) :
      /\ Cardinality({k \in GateCalls("scrollWheel") : seen.calls[k].c = c}) = 1
      /\ \A k \in GateCalls("scrollWheel") :
           seen.calls[k].arg.direction = (IF seen.tag = "scrollUp" THEN "up" ELSE "down")

\* C11: after one or more init calls with the keyboard fallback enabled, one
\* press of the Space key raises exactly one sideClick signal.
C11_KeyboardListenerIdempotent ==
  (seen.op = "keydown" /\ seen.tag = "Space" /\ winKey >= 1) => seen.signals = 1

\* the calls the gate made to the consumer c of the channel ch for the signal
\* number sig of the last stimulus
GateCallsFor(sig, ch, c) ==
  {k \in GateCalls(ch) : seen.calls[k].sig = sig /\ seen.calls[k].c = c}

\* C12: after any sequence of init calls, one raised sideClick, scrollUp or
\* scrollDown signal invokes each registered gate consumer of its channel at
\* most once.
C12_NoDuplicateGateDelivery ==
  IsStimulus =>
    \A sig \in 1..seen.signals : \A ch \in Channels : \A c \in HwConsumers :
      Cardinality(GateCallsFor(sig, ch, c)) <= 1

\* C13: when a consumer registered with hardwareEvents.on for a tag throws
\* during the fan-out of a signal of that tag, every other consumer registered
\* for the tag is still invoked for that signal.
C13_NormalizerIsolation ==
  (seen.op = "signal" /\ \E k \in NormCalls(seen.tag) : Throws(seen.calls[k].c)) =>
    \A c \in Elems(seen.normBefore[seen.tag]) :
      \E k \in NormCalls(seen.tag) : seen.calls[k].c = c

\* the channel of the gate a signal of the tag t is delivered on
ChannelOf(t) == IF t = "sideClick" THEN "sideButton" ELSE "scrollWheel"

\* C14: when a consumer of the gate's 'sideButton' or 'scrollWheel' channel
\* throws during fan-out, the remaining consumers of the channel are still
\* invoked for the same event.
C14_GateIsolation ==
  (seen.op = "signal" /\ seen.tag \in {"sideClick", "scrollUp", "scrollDown"}
   /\ \E k \in GateCalls(ChannelOf(seen.tag)) : Throws(seen.calls[k].c)) =>
    \A c \in Elems(seen.gateBefore[ChannelOf(seen.tag)]) :
      \E k \in GateCalls(ChannelOf(seen.tag)) : seen.calls[k].c = c

\* the consumers invoked by the last dispatch
Invoked == {obs.calls[k].c : k \in 1..Len(obs.calls)}

\* C15: the consumers invoked for one inbound payload are exactly those
\* registered when the dispatch started; a consumer subscribed with onMessage
\* from inside a callback during the dispatch is not invoked for that payload.
C15_DispatchSnapshot ==
  IsDispatch => Invoked = Elems(obs.before)

\* the calls the normalizer made to the consumer c for the signal number sig
NormCallsFor(sig, t, c) ==
  {k \in NormCalls(t) : seen.calls[k].sig = sig /\ seen.calls[k].c = c}

\* C16: whatever subscribe and unsubscribe calls consumers make from inside
\* their callbacks, no consumer of the response registry, of a hardware
\* registry or of a gate registry (one gate listener installed) is invoked more
\* than once for one inbound payload or one hardware signal.
C16_AtMostOnceReentrant ==
  /\ IsDispatch => \A c \in Elems(obs.before) : Cardinality(Called(c)) <= 1
  /\ seen.op = "signal" =>
       /\ \A c \in Elems(seen.normBefore[seen.tag]) :
            Cardinality(NormCallsFor(1, seen.tag, c)) <= 1
       /\ winSide = 1 =>
            \A c \in Elems(seen.gateBefore["sideButton"]) :
              Cardinality(GateCallsFor(1, "sideButton", c)) <= 1

ApiOps == {"onMessage", "offMessage", "removeAllHandlers", "sendMessage", "searchWeb",
           "onPluginMessage"}

\* C17: a dispatcher goes from uninitialized to active once, when it is
\* constructed, and never back: every constructed dispatcher is active, the
\* inbound slot is never removed, running the installation again on an active
\* dispatcher changes nothing, and onMessage, offMessage, removeAllHandlers,
\* sendMessage, searchWeb and an inbound dispatch leave the installed state and
\* the slot as they are.
C17_DispatcherLifecycle ==
  [][/\ \A i \in Instances : isInitialized[i] => isInitialized'[i]
     /\ \A i \in Instances :
          (~isInitialized[i] /\ isInitialized'[i]) => (obs'.op = "new" /\ obs'.inst = i)
     /\ \A i \in 1..nInst' : isInitialized'[i]
     /\ slot' \in 1..nInst'
     /\ obs'.op = "initializeMessageHandler" =>
          (isInitialized' = isInitialized /\ slot' = slot)
     /\ obs'.op \in ApiOps => (isInitialized' = isInitialized /\ slot' = slot)]_vars

C17_Witness ==
  /\ obs.op = "initializeMessageHandler"
  /\ nInst = 2
  /\ obs.inst = 1
  /\ slot = 2
  /\ messageHandlers[1] # <<>>

\* the calls one inbound payload would make from the registry of the slot in
\* the current state
WouldCall(p) == OnPluginMessage(messageHandlers[slot], p).calls

WouldInvoke(p) == {WouldCall(p)[k].c : k \in 1..Len(WouldCall(p))}

C19_FifoAcrossPayloads ==
  [][obs'.op = "onPluginMessage" =>
       /\ \A k \in 1..Len(obs'.calls) : DerivedFrom(obs'.calls[k].env, obs'.payload)
       /\ (IsDispatch /\ obs.payload # obs'.payload) =>
            \A k \in 1..Len(obs'.calls) : ~DerivedFrom(obs'.calls[k].env, obs.payload)
       /\ ~obs'.hung =>
            \A c \in Elems(obs'.before) \cap Elems(messageHandlers'[slot']) :
              \E k \in 1..Len(obs'.calls) : obs'.calls[k].c = c]_vars

C19_Witness ==
  /\ IsDispatch
  /\ obs.payload.message = "yo"
  /\ Len(obs.calls) >= 2
  /\ \E k \in 1..Len(obs.calls) : obs.calls[k].threw

\* the signals of the last stimulus that were raised for the channel ch while
\* its gate was enabled (the flags do not change during a stimulus)
RaisedEnabled(ch) ==
  IF ch = "sideButton"
  THEN IF sideButtonEnabled
          /\ (seen.op \in {"keydown", "triggerSideButton"} \/ seen.tag = "sideClick")
       THEN seen.signals ELSE 0
  ELSE IF scrollWheelEnabled /\ seen.op = "signal" /\ seen.tag \in {"scrollUp", "scrollDown"}
       THEN seen.signals ELSE 0

\* C20: a signal raised while its gate is disabled is dropped, not queued: no
\* call other than a raised signal (a flag set back to true included) invokes a
\* gate consumer, and a raised signal invokes a gate consumer no more often
\* than signals were raised with the gate enabled.
C20_DropNotQueue ==
  /\ ~IsStimulus => seen.calls = <<>>
  /\ IsStimulus =>
       \A ch \in Channels : \A c \in HwConsumers :
         Cardinality({k \in GateCalls(ch) : seen.calls[k].c = c}) <= RaisedEnabled(ch)

\* the consumers a sequence of calls invokes, with the registry and the channel
\* or tag they are registered on
Who(calls) == [k \in 1..Len(calls) |-> <<calls[k].reg, calls[k].chan, calls[k].c>>]

\* what one native sideClick signal does in the state the last stimulus started in
NativeSideClick ==
  DispatchEvent(Run0(seen.normBefore, seen.gateBefore), Event("sideClick", "none"),
                winSide, winScroll, sideButtonEnabled, scrollWheelEnabled)

\* C21: triggerSideButton invokes exactly the consumers, in the same order, that
\* a native sideClick signal raised in the same state invokes: the normalizer's
\* 'sideClick' consumers as hardwareEvents.emit calls them whatever the flag is,
\* and no 'sideButton' consumer of the gate while sideButtonEnabled is false.
C21_TriggerTakesSinglePath ==
  seen.op = "triggerSideButton" =>
    /\ Who(seen.calls) = Who(NativeSideClick.calls)
    /\ seen.signals = 1
    /\ [k \in 1..Cardinality(NormCalls("sideClick")) |-> seen.calls[k].c]
         = [k \in 1..Len(Emit(seen.normBefore["sideClick"]).calls) |->
              Emit(seen.normBefore["sideClick"]).calls[k].c]
    /\ ~sideButtonEnabled => GateCalls("sideButton") = {}

C21_Witness ==
  /\ seen.op = "triggerSideButton"
  /\ NormCalls("sideClick") # {}
  /\ GateCalls("sideButton") # {}

\* C22: with a keyboard listener installed, a press of the Space key is
\* delivered to exactly the set of consumers that one native sideClick signal
\* raised in the same state is delivered to, and a press of another key is
\* delivered to no consumer.
C22_KeyboardTakesSamePath ==
  (seen.op = "keydown" /\ winKey >= 1) =>
    IF seen.tag = "Space"
    THEN {Who(seen.calls)[k] : k \in 1..Len(seen.calls)}
           = {Who(NativeSideClick.calls)[k] : k \in 1..Len(NativeSideClick.calls)}
    ELSE seen.calls = <<>> /\ seen.signals = 0

C22_Witness ==
  /\ seen.op = "keydown"
  /\ seen.tag = "Space"
  /\ winKey >= 1
  /\ NormCalls("sideClick") # {}
  /\ GateCalls("sideButton") # {}

C22_WitnessOtherKey ==
  /\ seen.op = "keydown"
  /\ seen.tag = "Enter"
  /\ winKey >= 1
  /\ listeners["sideClick"] # <<>>

\* C23: setSideButtonEnabled and setScrollWheelEnabled write their own flag and
\* nothing else: both consumer sets of the gate, the consumer sets of the
\* normalizer, the other flag and the installed listeners stay as they are.
C23_SettersFrame ==
  [][/\ seen'.op = "setSideButtonEnabled" =>
          /\ sideButtonEnabled' = seen'.written
          /\ UNCHANGED <<scrollWheelEnabled, eventListeners, listeners,
                         winSide, winScroll, winKey>>
     /\ seen'.op = "setScrollWheelEnabled" =>
          /\ scrollWheelEnabled' = seen'.written
          /\ UNCHANGED <<sideButtonEnabled, eventListeners, listeners,
                         winSide, winScroll, winKey>>]_vars

C23_Witness ==
  /\ seen.op = "setSideButtonEnabled"
  /\ seen.written = FALSE
  /\ scrollWheelEnabled
  /\ eventListeners["sideButton"] # <<>>
  /\ listeners["sideClick"] # <<>>
  /\ winSide >= 1

\* C24: the flags are true before any write and change only by init or by
\* their own setter, which writes its argument; isSideButtonEnabled and
\* isScrollWheelEnabled return the flag as it is and change no flag, no
\* consumer set and no installed listener.
C24_GettersPure ==
  /\ [](seen.op = "new" => (sideButtonEnabled /\ scrollWheelEnabled))
  /\ [][/\ seen'.op = "isSideButtonEnabled" =>
             /\ seen'.ret = sideButtonEnabled
             /\ UNCHANGED <<sideButtonEnabled, scrollWheelEnabled, eventListeners,
                            listeners, winSide, winScroll, winKey>>
        /\ seen'.op = "isScrollWheelEnabled" =>
             /\ seen'.ret = scrollWheelEnabled
             /\ UNCHANGED <<sideButtonEnabled, scrollWheelEnabled, eventListeners,
                            listeners, winSide, winScroll, winKey>>
        /\ sideButtonEnabled' # sideButtonEnabled =>
             seen'.op \in {"init", "setSideButtonEnabled"}
        /\ scrollWheelEnabled' # scrollWheelEnabled =>
             seen'.op \in {"init", "setScrollWheelEnabled"}
        /\ seen'.op = "setSideButtonEnabled" => sideButtonEnabled' = seen'.written
        /\ seen'.op = "setScrollWheelEnabled" => scrollWheelEnabled' = seen'.written]_vars

C24_Witness ==
  /\ seen.op = "isSideButtonEnabled"
  /\ seen.ret = FALSE
  /\ initCalled
  /\ scrollWheelEnabled

\* the value init gives a flag: the option if it is supplied, true otherwise
Configured(opt) == IF opt = "absent" THEN TRUE ELSE opt = "true"

\* C30: after init(options) each flag is the option supplied for it, true if
\* none is supplied, whatever the flags were before the call.
C30_InitReappliesFlags ==
  [][seen'.op = "init" =>
       /\ sideButtonEnabled' = Configured(seen'.opts.sideButtonEnabled)
       /\ scrollWheelEnabled' = Configured(seen'.opts.scrollWheelEnabled)]_vars

C30_Witness ==
  /\ seen.op = "init"
  /\ seen.opts.sideButtonEnabled = "absent"
  /\ seen.opts.scrollWheelEnabled = "false"
  /\ sideButtonEnabled /\ ~scrollWheelEnabled
  /\ winSide = 2
  /\ winScroll = 1

\* C25: a raised signal of the tag t invokes each consumer registered for t
\* exactly once and no consumer of another tag; one raised signal is one
\* signal, none is made from it for another tag.
C25_TagIndependence ==
  seen.op = "signal" =>
    /\ seen.signals = 1
    /\ \A c \in Elems(seen.normBefore[seen.tag]) :
         Cardinality(NormCallsFor(1, seen.tag, c)) = 1
    /\ \A k \in 1..Len(seen.calls) :
         seen.calls[k].reg = "hardwareEvents" =>
           /\ seen.calls[k].chan = seen.tag
           /\ seen.calls[k].c \in Elems(seen.normBefore[seen.tag])

\* a signal of the tag t raised in the current state invokes the normalizer's
\* consumer c exactly once
NormDeliversOnce(t, c) ==
  LET run == DispatchEvent(Run0(listeners, eventListeners), Event(t, "none"),
                           winSide, winScroll, sideButtonEnabled, scrollWheelEnabled) IN
  Cardinality({k \in 1..Len(run.calls) :
                 /\ run.calls[k].reg = "hardwareEvents"
                 /\ run.calls[k].chan = t
                 /\ run.calls[k].c = c}) = 1

\* C26: the normalizer's subscriptions survive every operation: a consumer
\* registered with on(tag) after an off or a removeAllListeners is invoked
\* exactly once by a signal of the tag raised from then on.
C26_PermanentSubscription ==
  [][(seen.op \in {"hw.off", "hw.removeAllListeners"} /\ seen'.op = "hw.on") =>
       \A t \in Tags : \A c \in Elems(listeners'[t]) \ Elems(listeners[t]) :
         NormDeliversOnce(t, c)']_vars

\* C27: a sendMessage made while the host call-out is present hands exactly one
\* serialized envelope to the host, one rejected because the host is absent
\* hands none, and no other operation of the subsystem hands one over.
C27_FireAndForget ==
  /\ (obs.op = "sendMessage" /\ hostPresent) =>
        obs.posted = <<Stringify([kind |-> "text", text |-> obs.message], obs.options)>>
  /\ (obs.op = "sendMessage" /\ ~hostPresent) =>
        obs.promise = "rejected" /\ obs.posted = <<>>
  /\ obs.op \notin {"sendMessage", "searchWeb"} => obs.posted = <<>>

C27_Witness == obs.op = "sendMessage" /\ hostPresent /\ Len(obs.posted) = 1

\* the value of the key f in a serialized envelope, "absent" when it has no such key
EnvelopeField(env, f) ==
  LET hits == {k \in 2..Len(env) : env[k][1] = f} IN
  IF hits = {} THEN "absent" ELSE env[CHOOSE k \in hits : TRUE][2]

\* C28: the envelope of sendMessage(text, options) carries message = text and
\* each optional field with the caller's value exactly when the caller supplied
\* it; speakText always yields useLLM = false and wantsR1Response = true, and
\* askLLM always yields useLLM = true.
C28_EnvelopeConstruction ==
  (hostPresent /\ obs.op \in {"sendMessage", "askLLM", "speakText"}) =>
    /\ Len(obs.posted) = 1
    /\ obs.posted[1][1] = [kind |-> "text", text |-> obs.message]
    /\ obs.op = "sendMessage" =>
          \A f \in DOMAIN NoOptions : EnvelopeField(obs.posted[1], f) = obs.options[f]
    /\ obs.op = "speakText" =>
          /\ EnvelopeField(obs.posted[1], "useLLM") = "false"
          /\ EnvelopeField(obs.posted[1], "wantsR1Response") = "true"
    /\ obs.op = "askLLM" => EnvelopeField(obs.posted[1], "useLLM") = "true"

\* C29: a getItem(key) with default arguments that follows setItem(key, v)
\* returns a value equal to v, of the original type, for every string and every
\* object v.
C29_StorageRoundTrip ==
  [][(got.op = "setItem" /\ got'.op = "getItem" /\ got'.key = got.key) =>
       got'.ret = got.value]_vars

\* C31: when the most recent init call was made with keyboardFallback = false,
\* a Space key-press raises no sideClick signal and invokes no consumer, even
\* if an earlier init call had enabled the fallback.
C31_KeyboardFollowsLatestInit ==
  [][(/\ seen.op = "init"
      /\ seen.opts.keyboardFallback = "false"
      /\ seen'.op = "keydown"
      /\ seen'.tag = "Space") =>
       seen'.signals = 0 /\ seen'.calls = <<>>]_vars

\* C32: after stop() has returned isActive() is false, whether or not the host
\* sensor is present; isActive() is true only between a start and the next
\* stop.
C32_AccelerometerStop ==
  /\ acc.op = "stop" => ~isListening
  /\ (acc.op = "isActive" /\ acc.ret = TRUE) => acc.between

\* a Set holds an element once
NoDuplicates(reg) == Len(reg) = Cardinality(Elems(reg))

\* reg2 is reg1 after one add: the element is in, nothing else changed, and adding
\* an element that is already in changes nothing
AddedOne(reg1, reg2) ==
  \E c \in Consumers :
    /\ Elems(reg2) = Elems(reg1) \cup {c}
    /\ NoDuplicates(reg2)
    /\ c \in Elems(reg1) => reg2 = reg1

\* reg2 is reg1 after one delete: the element is gone completely, and deleting an
\* element that is not in changes nothing
DeletedOne(reg1, reg2) ==
  \E c \in Consumers :
    /\ Elems(reg2) = Elems(reg1) \ {c}
    /\ NoDuplicates(reg2)
    /\ c \notin Elems(reg1) => reg2 = reg1

\* C33: the three registries are sets of functions: registering a consumer
\* that is already registered changes nothing, and the next payload or event of
\* its channel invokes it exactly once; one unregister call removes a consumer
\* completely; unregistering a function that is not registered leaves the
\* registry unchanged.
C33_RegistrySetSemantics ==
  /\ [](/\ \A i \in Instances : NoDuplicates(messageHandlers[i])
        /\ \A t \in Tags : NoDuplicates(listeners[t])
        /\ \A ch \in Channels : NoDuplicates(eventListeners[ch]))
  /\ [][/\ obs'.op = "onMessage" /\ obs' # obs =>
            AddedOne(messageHandlers[1], messageHandlers'[1])
        /\ obs'.op = "offMessage" /\ obs' # obs =>
            DeletedOne(messageHandlers[1], messageHandlers'[1])
        /\ seen'.op = "hw.on" /\ seen' # seen =>
            \E t \in Tags : /\ AddedOne(listeners[t], listeners'[t])
                            /\ \A u \in Tags \ {t} : listeners'[u] = listeners[u]
        /\ seen'.op = "hw.off" /\ seen' # seen =>
            \E t \in Tags : /\ DeletedOne(listeners[t], listeners'[t])
                            /\ \A u \in Tags \ {t} : listeners'[u] = listeners[u]
        /\ seen'.op = "on" /\ seen' # seen =>
            \E ch \in Channels :
              /\ AddedOne(eventListeners[ch], eventListeners'[ch])
              /\ \A u \in Channels \ {ch} : eventListeners'[u] = eventListeners[u]
        /\ seen'.op = "off" /\ seen' # seen =>
            \E ch \in Channels :
              /\ DeletedOne(eventListeners[ch], eventListeners'[ch])
              /\ \A u \in Channels \ {ch} : eventListeners'[u] = eventListeners[u]
        /\ (obs.op = "onMessage" /\ obs.again # "none" /\ obs'.op = "onPluginMessage"
               /\ obs' # obs) =>
            Cardinality({k \in 1..Len(obs'.calls) : obs'.calls[k].c = obs.again}) = 1
        /\ (seen.op = "hw.on" /\ seen.again # "none" /\ seen'.op = "signal"
               /\ seen'.tag = seen.tag) =>
            Cardinality({k \in 1..Len(seen'.calls) :
                           /\ seen'.calls[k].reg = "hardwareEvents"
                           /\ seen'.calls[k].c = seen.again}) = 1
        /\ (seen.op = "on" /\ seen.again # "none" /\ seen'.op = "signal"
               /\ ChannelOf(seen'.tag) = seen.tag /\ winSide >= 1) =>
            Cardinality({k \in 1..Len(seen'.calls) :
                           /\ seen'.calls[k].reg = "deviceControls"
                           /\ seen'.calls[k].c = seen.again}) = 1]_vars

\* C34: no gate consumer is invoked for a signal raised before the first init
\* call, and the 'sideButton' consumers registered before the first init call
\* are invoked for a sideClick signal raised after it, when it leaves the gate
\* enabled.
C34_RegistrationBeforeInit ==
  /\ []((IsStimulus /\ ~initCalled) =>
          GateCalls("sideButton") = {} /\ GateCalls("scrollWheel") = {})
  /\ [][(~initCalled /\ seen'.op = "init" /\ sideButtonEnabled') => SideDelivers']_vars

\* who a signal of the tag t would invoke in the registry reg ("deviceControls"
\* or "hardwareEvents"), in order, given the registries, the window listeners and
\* the flags
WouldInvokeWith(ls, els, nSide, nScroll, sbe, swe, reg, t) ==
  LET run == DispatchEvent(Run0(ls, els), Event(t, "none"), nSide, nScroll, sbe, swe) IN
  Who(SelectSeq(run.calls, LAMBDA call : call.reg = reg))

\* in the current state
WouldInvokeIn(reg, t) ==
  WouldInvokeWith(listeners, eventListeners, winSide, winScroll,
                  sideButtonEnabled, scrollWheelEnabled, reg, t)

\* in the next state
WouldInvokeNext(reg, t) ==
  WouldInvokeWith(listeners', eventListeners', winSide', winScroll',
                  sideButtonEnabled', scrollWheelEnabled', reg, t)

\* C35: registering or removing consumers on the normalizer (on, off,
\* removeAllListeners) never changes the gate's registry nor which gate
\* consumers a signal invokes, and registering or removing gate consumers never
\* changes the normalizer's registry nor which normalizer consumers a signal
\* invokes.
C35_RegistriesDisjoint ==
  [][
      /\ seen'.op \in {"hw.on", "hw.off", "hw.removeAllListeners"} =>
          /\ eventListeners' = eventListeners
          /\ \A t \in Tags :
               WouldInvokeNext("deviceControls", t) = WouldInvokeIn("deviceControls", t)
      /\ seen'.op \in {"on", "off"} =>
          /\ listeners' = listeners
          /\ \A t \in Tags :
               WouldInvokeNext("hardwareEvents", t) = WouldInvokeIn("hardwareEvents", t)
    ]_vars

\* removeAllListeners has emptied the normalizer while the gate holds a
\* consumer that a sideClick signal reaches
C35_Witness ==
  /\ seen.op = "hw.removeAllListeners"
  /\ seen.tag = "all"
  /\ \A t \in Tags : listeners[t] = <<>>
  /\ WouldInvokeIn("deviceControls", "sideClick") # <<>>

\* C36: the inbound slot dispatches to the registry of exactly one R1Messaging
\* instance, the one constructed last: a payload invokes consumers of that
\* registry only, and a consumer registered only on an earlier instance is not
\* invoked once a later instance exists.
C36_SingleReachableRegistry ==
  /\ slot = nInst
  /\ IsDispatch =>
       /\ obs.inst = nInst
       /\ Invoked \subseteq Elems(obs.before) \cup Elems(messageHandlers[nInst])
       /\ \A i \in 1..(nInst - 1) :
            \A c \in Elems(messageHandlers[i]) :
              c \notin Elems(obs.before) \cup Elems(messageHandlers[nInst]) =>
                Called(c) = {}

C36_Witness ==
  /\ IsDispatch
  /\ nInst = 2
  /\ messageHandlers[1] = <<"a">>
  /\ obs.before = <<"t">>
  /\ Called("a") = {}
  /\ Called("t") # {}

(***************************************************************************)
(* R1Plugin                                                                *)
(***************************************************************************)
IsLifecycle == pl.op \in {"mount", "unmount"}

\* the hooks a lifecycle call reached, after the hook reached last before it
HooksFrom(before, events) == <<before>> \o [k \in 1..Len(events) |-> events[k].hook]

Forwarded(t) == {k \in NormCalls(t) : seen.calls[k].c = "ph"}

\* C38: from its construction on, whether mounted or not, a plugin constructed
\* with onHardwareEvent is registered under each of the five tags and every
\* ambient signal makes exactly one onHardwareEvent call, with the name of the
\* signal's tag; a plugin constructed with onMessage is registered with the
\* dispatcher and every payload makes exactly one onMessage call.
C38_EventForwarding ==
  /\ (constructed /\ config.onHardwareEvent) =>
       \A t \in Tags : "ph" \in Elems(listeners[t])
  /\ (constructed /\ config.onMessage) => "pm" \in Elems(messageHandlers[1])
  /\ (seen.op = "signal" /\ "ph" \in Elems(seen.normBefore[seen.tag])) =>
       /\ Cardinality(Forwarded(seen.tag)) = 1
       /\ \A t \in Tags \ {seen.tag} : Forwarded(t) = {}
  /\ (IsDispatch /\ "pm" \in Elems(obs.before)) => Cardinality(Called("pm")) = 1

====
